---- MODULE Spec2Model ----
(***************************************************************************)
(* Model of scd_app.py, the interactive single-case-design graph           *)
(* generator: the series parser (parse_series), the phase input loop, and  *)
(* the "Generate Graph" handler (palette choice, phase lengths and starts, *)
(* plot loop, phase separators, stair-steps, x-limits, legends).           *)
(*                                                                         *)
(* Conventions.  A text is a sequence of one-character strings.  A float   *)
(* is a record [isnan, val].  Every x-coordinate that can carry a half     *)
(* (separators, margins, axis limits, stair-step lengths) is kept DOUBLED, *)
(* as an integer number of half sessions: 0.5 is 1, x + 0.5 is 2x + 1.     *)
(***************************************************************************)
EXTENDS Integers, Sequences, FiniteSets

VARIABLES
    pc,                      \* "text" | "parsed" | "inputs" | "form" | "shown"
    text,                    \* the string handed to parse_series
    parsed,                  \* what parse_series returned
    errors,                  \* the tokens st.error reported, in order
    num_phases,
    phase_measures,          \* per phase: <<[name, data], ...>>
    color_mode,
    custom_colors,
    show_legend,
    offer_legend_downloads,
    use_max_x,
    fixed_max_x,             \* sessions (not doubled); 0 stands for None
    is_multiple_baseline,
    extend_phase_lines,
    stair_step_length,       \* doubled
    lines,                   \* ax.plot calls, in order
    vlines,                  \* ax.axvline calls: doubled x, in order
    hlines,                  \* ax.hlines calls: [from, to], doubled
    phase_lengths,
    phase_starts,
    xlim,                    \* upper x limit, doubled; 0 before any render
    legend,                  \* labels of the legend on the main graph
    legend_fig               \* labels of the legend-only figure

vars == <<pc, text, parsed, errors, num_phases, phase_measures, color_mode,
          custom_colors, show_legend, offer_legend_downloads, use_max_x,
          fixed_max_x, is_multiple_baseline, extend_phase_lines,
          stair_step_length, lines, vlines, hlines, phase_lengths,
          phase_starts, xlim, legend, legend_fig>>

(***************************************************************************)
(* Bounds of the model.                                                    *)
(***************************************************************************)
MaxLen == 4          \* characters of a text handed to parse_series
MaxPhases == 3       \* phases entered (the widget allows up to NumPhasesMax)
MaxTotal == 3        \* values entered over all measures of all phases

NumPhasesMax == 5

Max2(a, b) == IF a >= b THEN a ELSE b

(***************************************************************************)
(* Floats.                                                                 *)
(***************************************************************************)
NaN == [isnan |-> TRUE, val |-> 0]
Num(n) == [isnan |-> FALSE, val |-> n]

(***************************************************************************)
(* parse_series                                                            *)
(***************************************************************************)
Alphabet == {"1", "-", "x", "X", "n", "a", "A", ",", " "}

IsSpace(c) == c = " "
IsSep(c) == c \in {",", " "}

\* str.lower on one character
LowerChar(c) == IF c = "X" THEN "x" ELSE IF c = "A" THEN "a" ELSE c
Lower(s) == [i \in 1..Len(s) |-> LowerChar(s[i])]

\* str.strip(): leading and trailing whitespace removed
Strip(s) ==
    LET keep == {i \in 1..Len(s) : ~IsSpace(s[i])}
    IN IF keep = {} THEN <<>>
       ELSE LET lo == CHOOSE i \in keep : \A j \in keep : i <= j
                hi == CHOOSE i \in keep : \A j \in keep : j <= i
            IN SubSeq(s, lo, hi)

\* A buggy split that cuts at every separator character instead of at every
\* maximal run of separators.
RECURSIVE ReSplitEach(_)
ReSplitEach(s) ==
    LET seps == {i \in 1..Len(s) : IsSep(s[i])}
    IN IF seps = {} THEN <<s>>
       ELSE LET i == CHOOSE k \in seps : \A j \in seps : k <= j
            IN <<SubSeq(s, 1, i - 1)>> \o ReSplitEach(SubSeq(s, i + 1, Len(s)))

\* re.split(r"[,\s]+", s): cut at every maximal run of separators; a run at
\* the start or at the end leaves an empty first or last token.
RECURSIVE ReSplit(_)
ReSplit(s) ==
    LET seps == {i \in 1..Len(s) : IsSep(s[i])}
    IN IF seps = {} THEN <<s>>
       ELSE LET i == CHOOSE k \in seps : \A j \in seps : k <= j
                after == {k \in i..Len(s) : ~IsSep(s[k])}
                j == IF after = {} THEN Len(s) + 1
                     ELSE CHOOSE k \in after : \A m \in after : k <= m
            IN <<SubSeq(s, 1, i - 1)>> \o ReSplit(SubSeq(s, j, Len(s)))

MissingMarkers == {<<>>, <<"x">>, <<"-">>, <<"n", "a">>}

\* float(tt) over the alphabet: an optional sign, then decimal digits or "nan"
Unsigned(tt) == IF Len(tt) > 0 /\ tt[1] = "-" THEN Tail(tt) ELSE tt
IsDigits(u) == Len(u) > 0 /\ \A i \in 1..Len(u) : u[i] = "1"
IsFloat(tt) == IsDigits(Unsigned(tt)) \/ Unsigned(tt) = <<"n", "a", "n">>

RECURSIVE DigitsValue(_)
DigitsValue(u) ==
    IF u = <<>> THEN 0 ELSE 10 * DigitsValue(SubSeq(u, 1, Len(u) - 1)) + 1

Float(tt) ==
    IF Unsigned(tt) = <<"n", "a", "n">> THEN NaN
    ELSE IF Unsigned(tt) = tt THEN Num(DigitsValue(tt))
    ELSE Num(0 - DigitsValue(Unsigned(tt)))

\* A buggy loop that returns what it has parsed so far on a bad token.
RECURSIVE ParseTokensPartial(_, _)
ParseTokensPartial(tokens, out) ==
    IF tokens = <<>> THEN [out |-> out, err |-> <<>>]
    ELSE LET t == Head(tokens)
             tt == Lower(Strip(t))
         IN IF tt \in MissingMarkers
            THEN ParseTokensPartial(Tail(tokens), Append(out, NaN))
            ELSE IF IsFloat(tt)
            THEN ParseTokensPartial(Tail(tokens), Append(out, Float(tt)))
            ELSE [out |-> out, err |-> <<t>>]

\* The loop over the tokens: [out, err], err the reported tokens.
RECURSIVE ParseTokens(_, _)
ParseTokens(tokens, out) ==
    IF tokens = <<>> THEN [out |-> out, err |-> <<>>]
    ELSE LET t == Head(tokens)
             tt == Lower(Strip(t))
         IN IF tt \in MissingMarkers
            THEN ParseTokens(Tail(tokens), Append(out, NaN))
            ELSE IF IsFloat(tt)
            THEN ParseTokens(Tail(tokens), Append(out, Float(tt)))
            ELSE [out |-> <<>>, err |-> <<t>>]

SplitTokens(s) == ReSplit(Strip(s))

ParseLoop(tokens) == ParseTokens(tokens, <<>>)

parse_series(s) ==
    IF s = <<>> THEN [out |-> <<>>, err |-> <<>>]
    ELSE ParseLoop(SplitTokens(s))

(***************************************************************************)
(* The phase input loop                                                    *)
(***************************************************************************)
\* The data of a measure is what parse_series returns: numbers and NaN.
Values == {NaN, Num(1)}

RECURSIVE SeqsOfLen(_)
SeqsOfLen(n) ==
    IF n = 0 THEN {<<>>}
    ELSE {Append(q, v) : q \in SeqsOfLen(n - 1), v \in Values}

SeriesUpTo(n) == UNION {SeqsOfLen(k) : k \in 0..n}

RECURSIVE SumLens(_)
SumLens(measures) ==
    IF measures = <<>> THEN 0
    ELSE Len(Head(measures).data) + SumLens(Tail(measures))

RECURSIVE TotalValues(_)
TotalValues(pm) ==
    IF pm = <<>> THEN 0 ELSE SumLens(Head(pm)) + TotalValues(Tail(pm))

\* The default name of measure j of phase i, "Measure j (Phase i)".
MeasureName(i, j) == <<j, i>>

\* One pass of the loop over range(num_phases): the inputs of phase i.
PhaseInputs(m1_data, add_second, m2_data) ==
    /\ pc = "inputs"
    /\ Len(phase_measures) < num_phases
    /\ LET i == Len(phase_measures) + 1
           m1 == [name |-> MeasureName(i, 1), data |-> m1_data]
           m2 == [name |-> MeasureName(i, 2), data |-> m2_data]
           measures == IF add_second THEN <<m1, m2>> ELSE <<m1>>
       IN /\ TotalValues(phase_measures) + SumLens(measures) <= MaxTotal
          /\ phase_measures' = Append(phase_measures, measures)
          /\ pc' = IF i = num_phases THEN "form" ELSE "inputs"
    /\ UNCHANGED <<text, parsed, errors, num_phases, color_mode, custom_colors,
                   show_legend, offer_legend_downloads, use_max_x, fixed_max_x,
                   is_multiple_baseline, extend_phase_lines, stair_step_length,
                   lines, vlines, hlines, phase_lengths, phase_starts, xlim,
                   legend, legend_fig>>

(***************************************************************************)
(* The "Generate Graph" handler                                            *)
(***************************************************************************)
default_colors ==
    <<"#1f77b4", "#ff7f0e", "#2ca02c", "#d62728", "#9467bd", "#8c564b">>
grayscale_colors ==
    <<"#000000", "#555555", "#888888", "#AAAAAA", "#CCCCCC", "#EEEEEE">>

\* The colour the user picks in the picker color_i_j: a different one in
\* every picker.
PickedColor ==
    << <<"#c1m1", "#c1m2">>, <<"#c2m1", "#c2m2">>, <<"#c3m1", "#c3m2">>,
       <<"#c4m1", "#c4m2">>, <<"#c5m1", "#c5m2">> >>

\* custom_colors: one picker per measure, phase by phase.
RECURSIVE PickColors(_, _)
PickColors(pm, i) ==
    IF i > Len(pm) THEN <<>>
    ELSE [j \in 1..Len(pm[i]) |-> PickedColor[i][j]] \o PickColors(pm, i + 1)

CustomColors(mode, pm) == IF mode = "Custom" THEN PickColors(pm, 1) ELSE <<>>

Palette(mode, cc) ==
    IF mode = "Grayscale" THEN grayscale_colors
    ELSE IF mode = "Custom" /\ cc # <<>> THEN cc
    ELSE default_colors

SetMax(S) == CHOOSE x \in S : \A y \in S : y <= x

\* A buggy length that looks at the first measure only.
MaxLenFirst(measures) == Len(measures[1].data)

\* max((len(m[1]) for m in measures if m[1]), default=0)
max_len(measures) ==
    LET lens == {Len(measures[j].data) :
                    j \in {k \in 1..Len(measures) : measures[k].data # <<>>}}
    IN IF lens = {} THEN 0 ELSE SetMax(lens)

PhaseLengths(pm) == [i \in 1..Len(pm) |-> max_len(pm[i])]

RECURSIVE StartOf(_, _)
StartOf(lengths, i) ==
    IF i = 1 THEN 1 ELSE StartOf(lengths, i - 1) + lengths[i - 1]

PhaseStarts(lengths) == [i \in 1..Len(lengths) |-> StartOf(lengths, i)]

\* A buggy arange that forgets the phase's offset.
XValsNoOffset(start_x, data) == [k \in 1..Len(data) |-> k]

\* np.arange(start_x, start_x + len(data))
XVals(start_x, data) == [k \in 1..Len(data) |-> start_x + k - 1]

\* One pass of the loop over the measures of phase idx.  acc carries
\* color_index, plotted_xmax and the calls made on the axes.
PlotMeasure(acc, idx, j, m, start_x, palette) ==
    IF m.data = <<>> THEN acc
    ELSE LET x_vals == XVals(start_x, m.data)
             color == palette[(acc.color_index % Len(palette)) + 1]
         IN [acc EXCEPT
                !.color_index = @ + 1,
                !.lines = Append(@, [label |-> m.name, color |-> color,
                                     x_vals |-> x_vals, data |-> m.data,
                                     phase |-> idx, measure |-> j]),
                !.plotted_xmax = Max2(@, 2 * x_vals[Len(x_vals)] + 1)]

RECURSIVE PlotMeasures(_, _, _, _, _, _)
PlotMeasures(acc, idx, j, measures, start_x, palette) ==
    IF j > Len(measures) THEN acc
    ELSE PlotMeasures(PlotMeasure(acc, idx, j, measures[j], start_x, palette),
                      idx, j + 1, measures, start_x, palette)

\* The phase change separator and its optional stair-step.
Separator(acc, idx, n, start_x, L, stairs, ssl) ==
    IF idx < n /\ L > 0
    THEN LET x_line == 2 * (start_x + L) - 1
         IN IF stairs /\ ssl > 0
            THEN [acc EXCEPT
                     !.vlines = Append(@, x_line),
                     !.hlines = Append(@, [from |-> x_line,
                                           to |-> x_line + ssl]),
                     !.plotted_xmax = Max2(@, x_line + ssl + 1)]
            ELSE [acc EXCEPT !.vlines = Append(@, x_line)]
    ELSE acc

RECURSIVE PlotPhases(_, _, _, _, _, _, _, _)
PlotPhases(acc, idx, pm, starts, lengths, palette, stairs, ssl) ==
    IF idx > Len(pm) THEN acc
    ELSE LET plotted == PlotMeasures(acc, idx, 1, pm[idx], starts[idx], palette)
             marked == Separator(plotted, idx, Len(pm), starts[idx],
                                 lengths[idx], stairs, ssl)
         IN PlotPhases(marked, idx + 1, pm, starts, lengths, palette,
                       stairs, ssl)

MinXLim == 5     \* 2.5, doubled

\* A buggy limit that takes the override as it is.
XLimOverrideOnly(umx, fmx, plotted_xmax) ==
    IF umx THEN 2 * fmx + 1 ELSE Max2(plotted_xmax, MinXLim)

\* A limit without the 2.5 floor.
XLimNoFloor(umx, fmx, plotted_xmax) ==
    IF umx THEN Max2(2 * fmx + 1, plotted_xmax) ELSE plotted_xmax

\* ax.set_xlim(0.5, ...): the upper limit
XLim(umx, fmx, plotted_xmax) ==
    IF umx THEN Max2(2 * fmx + 1, plotted_xmax)
    ELSE Max2(plotted_xmax, MinXLim)

\* The points ax.plot draws for a line: one per value that is a number, none
\* for NaN.
Points(line) ==
    {line.x_vals[q] : q \in {k \in 1..Len(line.data) : ~line.data[k].isnan}}

\* ax.get_legend_handles_labels(): the labels of the plotted lines, in order
Labels(ls) == [k \in 1..Len(ls) |-> ls[k].label]

\* A buggy legend-only figure that is made only when the legend is shown.
LegendOnlyIfShown(show, offer, labels) ==
    IF show /\ offer /\ labels # <<>> THEN labels ELSE <<>>

MainLegend(show, labels) == IF show /\ labels # <<>> THEN labels ELSE <<>>

LegendOnly(show, offer, labels) ==
    IF offer /\ labels # <<>> THEN labels ELSE <<>>

\* The locals of the handler after the plot loop.
Render(mode, pm, stairs, ssl) ==
    LET cc == CustomColors(mode, pm)
        lengths == PhaseLengths(pm)
        starts == PhaseStarts(lengths)
        acc0 == [color_index |-> 0, plotted_xmax |-> 1, lines |-> <<>>,
                 vlines |-> <<>>, hlines |-> <<>>]
    IN [custom_colors |-> cc, phase_lengths |-> lengths,
        phase_starts |-> starts,
        acc |-> PlotPhases(acc0, 1, pm, starts, lengths, Palette(mode, cc),
                           stairs, ssl)]

Generate(mode, show, offer, umx, fmx, mb, ext, ssl) ==
    /\ pc = "form"
    /\ \E r \in {Render(mode, phase_measures, mb /\ ext, ssl)} :
        \E labels \in {Labels(r.acc.lines)} :
          /\ custom_colors' = r.custom_colors
          /\ phase_lengths' = r.phase_lengths
          /\ phase_starts' = r.phase_starts
          /\ lines' = r.acc.lines
          /\ vlines' = r.acc.vlines
          /\ hlines' = r.acc.hlines
          /\ xlim' = XLim(umx, fmx, r.acc.plotted_xmax)
          /\ legend' = MainLegend(show, labels)
          /\ legend_fig' = LegendOnly(show, offer, labels)
    /\ color_mode' = mode
    /\ show_legend' = show
    /\ offer_legend_downloads' = offer
    /\ use_max_x' = umx
    /\ fixed_max_x' = fmx
    /\ is_multiple_baseline' = mb
    /\ extend_phase_lines' = ext
    /\ stair_step_length' = ssl
    /\ pc' = "shown"
    /\ UNCHANGED <<text, parsed, errors, num_phases, phase_measures>>

(***************************************************************************)
(* Specifications                                                          *)
(***************************************************************************)
Min2(a, b) == IF a <= b THEN a ELSE b

Texts == UNION {[1..k -> Alphabet] : k \in 0..MaxLen}

\* The widgets' default values and an empty figure.
Defaults ==
    /\ color_mode = "Color"
    /\ custom_colors = <<>>
    /\ show_legend = TRUE
    /\ offer_legend_downloads = TRUE
    /\ use_max_x = FALSE
    /\ fixed_max_x = 0
    /\ is_multiple_baseline = FALSE
    /\ extend_phase_lines = FALSE
    /\ stair_step_length = 0
    /\ lines = <<>>
    /\ vlines = <<>>
    /\ hlines = <<>>
    /\ phase_lengths = <<>>
    /\ phase_starts = <<>>
    /\ xlim = 0
    /\ legend = <<>>
    /\ legend_fig = <<>>

\* parse_series applied to the text of one data field.
ParseSeries ==
    /\ pc = "text"
    /\ LET r == parse_series(text)
       IN /\ parsed' = r.out
          /\ errors' = r.err
    /\ pc' = "parsed"
    /\ UNCHANGED <<text, num_phases, phase_measures, color_mode, custom_colors,
                   show_legend, offer_legend_downloads, use_max_x, fixed_max_x,
                   is_multiple_baseline, extend_phase_lines, stair_step_length,
                   lines, vlines, hlines, phase_lengths, phase_starts, xlim,
                   legend, legend_fig>>

ParseInit ==
    /\ pc = "text"
    /\ text \in Texts
    /\ parsed = <<>>
    /\ errors = <<>>
    /\ num_phases = 1
    /\ phase_measures = <<>>
    /\ Defaults

ParseNext == ParseSeries

ParseSpec == ParseInit /\ [][ParseNext]_vars

Init ==
    /\ pc = "inputs"
    /\ text = <<>>
    /\ parsed = <<>>
    /\ errors = <<>>
    /\ num_phases \in 1..Min2(MaxPhases, NumPhasesMax)
    /\ phase_measures = <<>>
    /\ Defaults

\* The inputs of the next phase, within what is left of MaxTotal.
EnterPhase ==
    \E left \in {MaxTotal - TotalValues(phase_measures)} :
        \E m1_data \in SeriesUpTo(left), add_second \in BOOLEAN :
            \E m2_data \in IF add_second
                            THEN SeriesUpTo(left - Len(m1_data)) ELSE {<<>>} :
                PhaseInputs(m1_data, add_second, m2_data)

\* Generate with the colour and legend widgets set and the rest at defaults.
GenerateStyled ==
    \E mode \in {"Color", "Grayscale", "Custom"}, show \in BOOLEAN,
       offer \in BOOLEAN :
        Generate(mode, show, offer, FALSE, 0, FALSE, FALSE, 0)

Next == EnterPhase \/ GenerateStyled

Spec == Init /\ [][Next]_vars

FixedMaxXMin == 1
StairStep == 1             \* one step of the length widget: 0.5, doubled
StairDefault == 6          \* 3.0, doubled

\* What the multiple-baseline widgets can hold: the length is read only when
\* both boxes are ticked, and is 0.0 otherwise.
StairSettings ==
    {<<FALSE, FALSE, 0>>}
    \cup {<<TRUE, TRUE, l>> : l \in {0, StairStep, StairDefault}}

\* Generate with the x-range and stair-step widgets set and the rest at
\* defaults.
GenerateRanged ==
    \E st \in StairSettings :
        \/ Generate("Color", TRUE, TRUE, FALSE, 0, st[1], st[2], st[3])
        \/ \E fmx \in {FixedMaxXMin, FixedMaxXMin + 1} :
              Generate("Color", TRUE, TRUE, TRUE, fmx, st[1], st[2], st[3])

AxisNext == EnterPhase \/ GenerateRanged

AxisSpec == Init /\ [][AxisNext]_vars

(***************************************************************************)
(* Properties of parse_series (checked under ParseSpec)                    *)
(***************************************************************************)
SetMin(S) == CHOOSE x \in S : \A y \in S : x <= y

\* The tokens of an input: none for the empty input.
TokensOf(s) == IF s = <<>> THEN <<>> ELSE SplitTokens(s)

IsMarkerToken(t) == Lower(t) \in MissingMarkers
SpellsNaN(t) == Unsigned(Lower(t)) = <<"n", "a", "n">>
IsNumberToken(t) == ~IsMarkerToken(t) /\ IsFloat(Lower(t))
BadTokens(toks) ==
    {k \in 1..Len(toks) : ~IsMarkerToken(toks[k]) /\ ~IsNumberToken(toks[k])}

\* Rejection: a bad token empties the result and the first one is reported.
Rejected(toks) ==
    /\ parsed = <<>>
    /\ errors = <<toks[SetMin(BadTokens(toks))]>>

\* Acceptance: one element per token, in order, each number with its value.
Accepted(toks) ==
    /\ errors = <<>>
    /\ Len(parsed) = Len(toks)
    /\ \A k \in 1..Len(toks) :
          ~parsed[k].isnan => parsed[k] = Float(Lower(toks[k]))

\* C2 as stated: parse_series is all-or-nothing, and on acceptance the
\* missing markers of the result sit at exactly the positions of the tokens
\* "", "x", "-", "na" (any case).
C2_MissingOnlyAtMarkers ==
    pc = "parsed" =>
        LET toks == TokensOf(text)
        IN IF BadTokens(toks) # {} THEN Rejected(toks)
           ELSE /\ Accepted(toks)
                /\ \A k \in 1..Len(toks) :
                      parsed[k].isnan <=> IsMarkerToken(toks[k])

\* C2, amended: parse_series is all-or-nothing (a bad token empties the result
\* and the first bad token is reported); on acceptance the result has one
\* element per token in input order, and a missing marker at exactly the
\* positions of the tokens "", "x", "-", "na" and of the tokens that float()
\* reads as NaN ("nan", "-nan"), any case.
C2_AllOrNothing ==
    pc = "parsed" =>
        LET toks == TokensOf(text)
        IN IF BadTokens(toks) # {} THEN Rejected(toks)
           ELSE /\ Accepted(toks)
                /\ \A k \in 1..Len(toks) :
                      parsed[k].isnan <=>
                          (IsMarkerToken(toks[k]) \/ SpellsNaN(toks[k]))

\* A rejection after a good first token, and nothing of it kept.
C2_Witness ==
    /\ pc = "parsed"
    /\ Len(TokensOf(text)) >= 2
    /\ IsNumberToken(TokensOf(text)[1])
    /\ errors = <<TokensOf(text)[2]>>
    /\ parsed = <<>>

\* The maximal runs of non-separator characters of a text.
NRuns(s) ==
    Cardinality({i \in 1..Len(s) :
                    ~IsSep(s[i]) /\ (i = 1 \/ IsSep(s[i - 1]))})

NonSpace(s) == {i \in 1..Len(s) : ~IsSpace(s[i])}
FirstIsComma(s) == NonSpace(s) # {} /\ s[SetMin(NonSpace(s))] = ","
LastIsComma(s) == NonSpace(s) # {} /\ s[SetMax(NonSpace(s))] = ","
OnlySpaces(s) == s # <<>> /\ NonSpace(s) = {}
Count(b) == IF b THEN 1 ELSE 0

\* C3 as stated: commas and whitespace only separate, so an accepted input
\* yields exactly one element per maximal run of non-separator characters.
C3_OnlyRunsCount ==
    (pc = "parsed" /\ errors = <<>>) => Len(parsed) = NRuns(text)

\* C3, amended: repeated separators collapse and whitespace around the input
\* adds nothing, but only the empty string yields the empty series: an
\* accepted input yields one element per maximal run of non-separator
\* characters, plus one missing element in front when its first
\* non-whitespace character is a comma, plus one missing element at the end
\* when its last non-whitespace character is a comma, and a single missing
\* element when it is non-empty and all whitespace.
C3_SeparatorsCollapse ==
    (pc = "parsed" /\ errors = <<>>) =>
        /\ Len(parsed) = NRuns(text) + Count(FirstIsComma(text))
                         + Count(LastIsComma(text)) + Count(OnlySpaces(text))
        /\ FirstIsComma(text) => parsed[1].isnan
        /\ LastIsComma(text) => parsed[Len(parsed)].isnan
        /\ OnlySpaces(text) => parsed = <<NaN>>

\* Two numbers around a repeated separator, padded: two elements.
C3_Witness ==
    /\ pc = "parsed"
    /\ errors = <<>>
    /\ \E i \in 1..(Len(text) - 1) : text[i] = "," /\ text[i + 1] = " "
    /\ NRuns(text) = 2
    /\ parsed = <<Num(1), Num(1)>>

(***************************************************************************)
(* Properties of the render (checked under Spec)                           *)
(***************************************************************************)
NPhases == Len(phase_measures)
DataLens(i) == {Len(phase_measures[i][j].data) : j \in 1..Len(phase_measures[i])}

\* C1: the length of a phase is the largest number of values among its
\* measures (0 when all are empty); the first phase starts at 1 and every
\* later phase at the previous start plus the previous length, so a
\* zero-length phase leaves the next start equal to its own.
C1_PhaseLayout ==
    pc = "shown" =>
        /\ Len(phase_lengths) = NPhases
        /\ Len(phase_starts) = NPhases
        /\ \A i \in 1..NPhases :
              /\ phase_lengths[i] \in DataLens(i)
              /\ \A l \in DataLens(i) : l <= phase_lengths[i]
        /\ phase_starts[1] = 1
        /\ \A i \in 2..NPhases :
              phase_starts[i] = phase_starts[i - 1] + phase_lengths[i - 1]
        /\ \A i \in 1..(NPhases - 1) :
              phase_lengths[i] = 0 => phase_starts[i + 1] = phase_starts[i]

\* A phase whose second measure is the longer one, then a zero-length phase,
\* then a third phase.
C1_Witness ==
    /\ pc = "shown"
    /\ NPhases = 3
    /\ Len(phase_measures[1]) = 2
    /\ Len(phase_measures[1][1].data) = 1
    /\ Len(phase_measures[1][2].data) = 2
    /\ phase_lengths = <<2, 0, 0>>
    /\ phase_starts = <<1, 3, 3>>

\* The boundaries between consecutive non-empty phases: one before every
\* non-empty phase that has a non-empty phase somewhere before it.
BoundariesBetween ==
    {2 * phase_starts[q] - 1 :
        q \in {r \in 2..NPhases :
                 /\ phase_lengths[r] > 0
                 /\ \E p \in 1..(r - 1) :
                       /\ phase_lengths[p] > 0
                       /\ \A m \in (p + 1)..(r - 1) : phase_lengths[m] = 0}}

\* C4: a vertical boundary is drawn at x exactly when x = start_x(q) - 0.5
\* for a non-empty phase q that follows a non-empty phase p with only
\* zero-length phases between them; none after the last non-empty phase.
C4_BoundariesOnlyBetween ==
    pc = "shown" => {vlines[k] : k \in 1..Len(vlines)} = BoundariesBetween

\* C5: in custom colour mode every plotted measure is drawn in the colour
\* picked for that same measure.
C5_CustomColorOfMeasure ==
    (pc = "shown" /\ color_mode = "Custom") =>
        \A k \in 1..Len(lines) :
            lines[k].color = PickedColor[lines[k].phase][lines[k].measure]

\* The hypothesis of C6, fewer supplied colours than plotted measures, is
\* never met: the pickers give one colour per measure, plotted or not, so
\* the custom palette is never empty and never shorter than the plotted
\* lines, and the index color_index % len(palette) never wraps.
CustomColorsCoverMeasures ==
    (pc = "shown" /\ color_mode = "Custom") =>
        /\ Len(custom_colors) = Cardinality({<<i, j>> \in (1..NPhases) \X (1..2) :
                                                j <= Len(phase_measures[i])})
        /\ Len(custom_colors) >= Len(lines)
        /\ Len(custom_colors) >= 1

\* The names of the non-empty measures, phase by phase and measure by measure.
RECURSIVE PlottedNames(_, _, _)
PlottedNames(pm, i, j) ==
    IF i > Len(pm) THEN <<>>
    ELSE IF j > Len(pm[i]) THEN PlottedNames(pm, i + 1, 1)
    ELSE (IF pm[i][j].data = <<>> THEN <<>> ELSE <<pm[i][j].name>>)
         \o PlottedNames(pm, i, j + 1)

C9_PointsKeepPosition ==
    pc = "shown" =>
        /\ \A i \in 1..NPhases : \A j \in 1..Len(phase_measures[i]) :
              LET data == phase_measures[i][j].data
              IN data # <<>> =>
                    \E k \in 1..Len(lines) :
                        /\ lines[k].phase = i
                        /\ lines[k].measure = j
                        /\ lines[k].data = data
                        /\ Len(lines[k].x_vals) = Len(data)
                        /\ \A q \in 1..Len(data) :
                              lines[k].x_vals[q] = phase_starts[i] + q - 1
        /\ \A k \in 1..Len(lines) :
              LET p == lines[k].phase
              IN Points(lines[k]) \subseteq
                    phase_starts[p]..(phase_starts[p] + phase_lengths[p] - 1)
        /\ \A k1, k2 \in 1..Len(lines) :
              lines[k1].phase # lines[k2].phase =>
                  Points(lines[k1]) \cap Points(lines[k2]) = {}

\* A missing value in front of a number, and a later phase with a point.
C9_Witness ==
    /\ pc = "shown"
    /\ \E k1, k2 \in 1..Len(lines) :
          /\ lines[k1].phase < lines[k2].phase
          /\ lines[k1].data = <<NaN, Num(1)>>
          /\ Points(lines[k1]) = {phase_starts[lines[k1].phase] + 1}
          /\ Points(lines[k2]) # {}

(***************************************************************************)
(* Properties of the x-limits (checked under AxisSpec)                     *)
(***************************************************************************)
AllPoints == UNION {Points(lines[k]) : k \in 1..Len(lines)}
StairEnds == {hlines[k].to : k \in 1..Len(hlines)}

\* The extent of what was drawn, margin included (doubled): 0.5 past the
\* last position of every plotted measure and past the end of every
\* stair-step, 0.5 when there is neither.
Extent ==
    SetMax({1}
           \cup {2 * lines[k].x_vals[Len(lines[k].x_vals)] + 1 :
                    k \in 1..Len(lines)}
           \cup {e + 1 : e \in StairEnds})

C10_ExtentPlusMargin ==
    (pc = "shown" /\ ~use_max_x /\ AllPoints \cup StairEnds # {}) =>
        xlim = SetMax({2 * x : x \in AllPoints} \cup StairEnds) + 1

\* C10, amended: with no fixed maximum X the upper limit is the larger of 2.5
\* and the extent plus the 0.5 margin, the extent being the largest x
\* position of any value, number or missing, of a plotted measure or of the
\* end of any stair-step; it is 2.5 when a single point is plotted at x = 1.
C10_ExtentWithFloor ==
    (pc = "shown" /\ ~use_max_x) => xlim = Max2(MinXLim, Extent)

\* A single point plotted at x = 1.
C10_Witness ==
    /\ pc = "shown"
    /\ ~use_max_x
    /\ Len(lines) = 1
    /\ lines[1].data = <<Num(1)>>
    /\ AllPoints = {1}
    /\ hlines = <<>>
    /\ xlim = MinXLim

====
